---- MODULE Spec2Model ----
(***************************************************************************)
(* State-machine model of src/gtp_openAI.py: a two-screen Qt client.       *)
(*                                                                         *)
(* Threads.  The interface thread runs the Qt event loop: it executes the  *)
(* widget handlers (check_api_key, save_api_key, send_message) when the    *)
(* user triggers an ENABLED widget of the VISIBLE screen, and the slots    *)
(* connected to worker signals (on_check_finished,                         *)
(* update_assistant_message, on_chat_finished, on_chat_error).  A signal   *)
(* emitted by a worker, which lives in its own QThread, towards a slot of  *)
(* a widget is a queued connection: the call is posted to the interface    *)
(* thread's event queue and the queue is served first-in first-out.  The   *)
(* variable eventQueue is that queue.                                      *)
(*                                                                         *)
(* Text.  Every text (key, message, fragment) is a sequence of one-        *)
(* character strings, so that str.strip() and += are computed, not         *)
(* assumed.                                                                *)
(*                                                                         *)
(* Message boxes.  QMessageBox.warning/information are modal: they block   *)
(* user input until dismissed.  A handler is modelled as one step that     *)
(* includes the dismissal, and the last box shown is kept in notice.       *)
(***************************************************************************)
EXTENDS Integers, Sequences, FiniteSets, TLC

\* ------------------------------------------------------------------ bounds
\* Number of worker objects (ApiKeyCheckWorker and ChatWorker, each with its
\* QThread) created in one run.
MaxWorkers == 3
\* Number of chunks the transport yields in one run, all responses together.
MaxChunks == 2

\* ------------------------------------------------------------------ inputs
\* Texts the user can put into the key field (QLineEdit api_key_input).
KeyTexts == {<<>>, <<" ">>, <<" ", "k", " ">>, <<"j">>}

\* Texts the user can put into the chat input field (QLineEdit input_field).
InputTexts == {<<>>, <<" ", " ">>, <<" ", "a", " ", "b", " ">>}

\* Non-empty text deltas of a streamed chunk.
Fragments == {<<"x">>, <<"y">>}

\* delta.get("content", "") of a chunk: a fragment, or "" when the chunk
\* carries no text.
ChunkContents == Fragments \cup {<<>>}

\* Values the settings store can hold under api_key when the process starts:
\* nothing (value() then yields the default ""), or a key saved by an
\* earlier run.
StoredKeys == {<<>>, <<"k">>}

\* The value of openai.api_key before any worker assigned it.
None == <<"None">>

\* ------------------------------------------------------------- pure helpers
RECURSIVE LStrip(_)
LStrip(s) == IF s = <<>> THEN s
             ELSE IF Head(s) = " " THEN LStrip(Tail(s)) ELSE s

RECURSIVE RStrip(_)
RStrip(s) == IF s = <<>> THEN s
             ELSE IF s[Len(s)] = " " THEN RStrip(SubSeq(s, 1, Len(s) - 1)) ELSE s

\* A strip that forgets the trailing blanks (str.lstrip).
StripLeadingOnly(s) == LStrip(s)

\* str.strip(): leading and trailing blanks removed, inner blanks kept.
Strip(s) == RStrip(LStrip(s))

\* ------------------------------------------------------------------- state
VARIABLES
    screen,                 \* MainWindow: the current widget, "login" or "chat"
    login_api_key,          \* LoginScreen.api_key
    valid_api_key,          \* LoginScreen.valid_api_key
    check_btn,              \* LoginScreen.check_btn.isEnabled()
    save_btn,               \* LoginScreen.save_btn.isEnabled()
    settings,               \* QSettings("MyCompany","llm_name_app") value of api_key
    openai_api_key,         \* the module global openai.api_key
    checkWorkers,           \* the ApiKeyCheckWorker objects, in creation order
    chat_api_key,           \* ChatScreen.api_key
    input_field_text,       \* ChatScreen.input_field.text()
    input_field,            \* ChatScreen.input_field.isEnabled()
    send_btn,               \* ChatScreen.send_btn.isEnabled()
    conversation,           \* ChatScreen.conversation
    current_assistant_text, \* ChatScreen.current_assistant_text
    chat_history,           \* ChatScreen.chat_history: the paragraphs of the QTextEdit
    chatWorkers,            \* the ChatWorker objects, in creation order
    eventQueue,             \* queued signal deliveries to the interface thread
    notice,                 \* the last QMessageBox shown
    op                      \* the last handler the interface thread executed

loginVars == <<login_api_key, valid_api_key, check_btn, save_btn>>
chatVars == <<chat_api_key, input_field_text, input_field, send_btn, conversation,
              current_assistant_text, chat_history>>
vars == <<screen, loginVars, settings, openai_api_key, checkWorkers, chatVars,
          chatWorkers, eventQueue, notice, op>>

\* ------------------------------------------------------------------ Init
\* MainWindow.__init__ builds both screens; the first widget added, the login
\* screen, is the current one.  ChatScreen.__init__ reads the settings store.
Init ==
    /\ screen = "login"
    /\ login_api_key = <<>>
    /\ valid_api_key = FALSE
    /\ check_btn = TRUE
    /\ save_btn = FALSE
    /\ settings \in StoredKeys
    /\ openai_api_key = None
    /\ checkWorkers = <<>>
    /\ chat_api_key = settings
    /\ input_field_text = <<>>
    /\ input_field = TRUE
    /\ send_btn = TRUE
    /\ conversation = <<>>
    /\ current_assistant_text = <<>>
    /\ chat_history = <<>>
    /\ chatWorkers = <<>>
    /\ eventQueue = <<>>
    /\ notice = "none"
    /\ op = "init"

\* A queued delivery of a signal of worker w (an index into checkWorkers for
\* "checkFinished", into chatWorkers otherwise).
Event(sig, w, success, token) ==
    [sig |-> sig, w |-> w, success |-> success, token |-> token]

\* ------------------------------------------------------------ login screen
\* ApiKeyCheckWorker.__init__ and the QThread started for it.  usedKey and
\* outcome record what run() did: the key the remote call was made with, and
\* whether the call returned ("ok") or raised ("raised").
NewCheckWorker(api_key) ==
    [api_key |-> api_key, pc |-> "created", usedKey |-> None, outcome |-> "pending",
     thread |-> "running"]

\* LoginScreen.check_api_key; text is api_key_input.text(), which only the user
\* writes.
check_api_key(text) ==
    /\ login_api_key' = Strip(text)
    /\ IF login_api_key' = <<>>
       THEN /\ notice' = "warning: Please enter an API key."
            /\ UNCHANGED <<check_btn, checkWorkers>>
       ELSE /\ Len(checkWorkers) + Len(chatWorkers) < MaxWorkers
            /\ check_btn' = FALSE
            /\ checkWorkers' = Append(checkWorkers, NewCheckWorker(login_api_key'))
            /\ UNCHANGED notice
    /\ op' = "check_api_key"
    /\ UNCHANGED <<screen, valid_api_key, save_btn, settings,
                   openai_api_key, chatVars, chatWorkers, eventQueue>>

\* check_btn.clicked: a click on the enabled Check button of the visible screen,
\* whatever the key field holds.
ClickCheck ==
    /\ screen = "login"
    /\ check_btn
    /\ \E text \in KeyTexts : check_api_key(text)

\* ApiKeyCheckWorker.run, line 19: the global is assigned.
CheckWorkerSetKey(i) ==
    /\ checkWorkers[i].pc = "created"
    /\ openai_api_key' = checkWorkers[i].api_key
    /\ checkWorkers' = [checkWorkers EXCEPT ![i].pc = "keyset"]
    /\ UNCHANGED <<screen, loginVars, settings, chatVars, chatWorkers, eventQueue,
                   notice, op>>

\* ApiKeyCheckWorker.run, lines 20-24: openai.Model.list() authenticates with
\* the global as it is now; the remote service accepts or the call raises.
CheckWorkerCall(i) ==
    /\ checkWorkers[i].pc = "keyset"
    /\ \E success \in BOOLEAN :
        /\ eventQueue' = Append(eventQueue, Event("checkFinished", i, success, <<>>))
        /\ checkWorkers' = [checkWorkers EXCEPT
                               ![i].pc = "done",
                               ![i].usedKey = openai_api_key,
                               ![i].outcome = IF success THEN "ok" ELSE "raised"]
    /\ UNCHANGED <<screen, loginVars, settings, openai_api_key, chatVars,
                   chatWorkers, notice, op>>

\* on_check_finished writing the key to the settings store itself when the
\* validation succeeded.
on_check_finished_persists ==
    /\ eventQueue # <<>>
    /\ Head(eventQueue).sig = "checkFinished"
    /\ check_btn' = TRUE
    /\ valid_api_key' = Head(eventQueue).success
    /\ save_btn' = Head(eventQueue).success
    /\ settings' = IF Head(eventQueue).success THEN login_api_key ELSE settings
    /\ notice' = IF Head(eventQueue).success
                 THEN "information: API key is valid!"
                 ELSE "warning: Invalid API key"
    /\ checkWorkers' = [checkWorkers EXCEPT ![Head(eventQueue).w].thread = "quit"]
    /\ eventQueue' = Tail(eventQueue)
    /\ op' = "on_check_finished"
    /\ UNCHANGED <<screen, login_api_key, openai_api_key, chatVars, chatWorkers>>

\* LoginScreen.on_check_finished, then thread.quit, for the delivery at the
\* head of the queue.
on_check_finished ==
    /\ eventQueue # <<>>
    /\ Head(eventQueue).sig = "checkFinished"
    /\ check_btn' = TRUE
    /\ valid_api_key' = Head(eventQueue).success
    /\ save_btn' = Head(eventQueue).success
    /\ notice' = IF Head(eventQueue).success
                 THEN "information: API key is valid!"
                 ELSE "warning: Invalid API key"
    /\ checkWorkers' = [checkWorkers EXCEPT ![Head(eventQueue).w].thread = "quit"]
    /\ eventQueue' = Tail(eventQueue)
    /\ op' = "on_check_finished"
    /\ UNCHANGED <<screen, login_api_key, settings, openai_api_key,
                   chatVars, chatWorkers>>

\* LoginScreen.save_api_key; switchScreen is connected to
\* MainWindow.show_chat_screen.
save_api_key ==
    /\ IF valid_api_key
       THEN /\ settings' = login_api_key
            /\ notice' = "information: API key saved successfully!"
            /\ screen' = "chat"
       ELSE UNCHANGED <<settings, notice, screen>>
    /\ op' = "save_api_key"
    /\ UNCHANGED <<loginVars, openai_api_key, checkWorkers, chatVars, chatWorkers,
                   eventQueue>>

ClickSave ==
    /\ screen = "login"
    /\ save_btn
    /\ save_api_key

LoginNext ==
    \/ ClickCheck
    \/ \E i \in 1..Len(checkWorkers) : CheckWorkerSetKey(i)
    \/ \E i \in 1..Len(checkWorkers) : CheckWorkerCall(i)
    \/ on_check_finished
    \/ ClickSave

\* ------------------------------------------------------------- chat screen
Message(role, content) == [role |-> role, content |-> content]

\* One paragraph of the QTextEdit: "<b>sender:</b> text".
Paragraph(sender, text) == [sender |-> sender, text |-> text]

\* ChatScreen.append_chat.
append_chat(history, sender, message) == Append(history, Paragraph(sender, message))

\* The user edits the chat input field.
EditInput ==
    /\ screen = "chat"
    /\ input_field
    /\ \E t \in InputTexts :
        /\ t # input_field_text
        /\ input_field_text' = t
    /\ UNCHANGED <<screen, loginVars, settings, openai_api_key, checkWorkers,
                   chat_api_key, input_field, send_btn, conversation,
                   current_assistant_text, chat_history, chatWorkers, eventQueue,
                   notice, op>>

\* ChatWorker.__init__ and the QThread started for it.  self.messages is the
\* list object ChatScreen.conversation itself, not a copy, so the worker holds
\* no message list of its own.  turn: the position of this turn's user message.
\* usedKey, sent, chunks, emitted and outcome record what run() did: the key
\* and the messages the request was made with, the chunk contents the
\* response yielded, the signals emitted, and whether the transport ended
\* normally ("ok") or raised ("raised").
NewChatWorker(api_key, turn) ==
    [api_key |-> api_key, pc |-> "created", usedKey |-> None, sent |-> <<>>,
     chunks |-> <<>>, emitted |-> <<>>, outcome |-> "pending", turn |-> turn,
     thread |-> "running"]

\* An early return that never triggers.
IsEmptyInputNever(user_message) == FALSE

\* send_message, line 166: the early return.
IsEmptyInput(user_message) == user_message = <<>>

\* send_message, line 171.
AppendUser(conv, user_message) == Append(conv, Message("user", user_message))

\* Controls left enabled while the turn is in flight.
EnabledWhileInFlightLeftOn == TRUE

\* send_message, lines 175-176: the argument of the two setEnabled calls.
EnabledWhileInFlight == FALSE

\* The text of the previous turn carried over into the new one.
AssistantTextCarriedOver(text) == text

\* send_message, line 180: the accumulator of the turn that starts, given the
\* text the previous turn left in it.
AssistantTextAtSubmit(text) == <<>>

\* ChatScreen.send_message.
send_message ==
    LET user_message == Strip(input_field_text) IN
    /\ IF IsEmptyInput(user_message)
       THEN UNCHANGED <<chatVars, chatWorkers>>
       ELSE /\ Len(checkWorkers) + Len(chatWorkers) < MaxWorkers
            /\ chat_history' = append_chat(append_chat(chat_history, "User", user_message),
                                           "Assistant", <<>>)
            /\ conversation' = AppendUser(conversation, user_message)
            /\ input_field_text' = <<>>
            /\ send_btn' = EnabledWhileInFlight
            /\ input_field' = EnabledWhileInFlight
            /\ current_assistant_text' = AssistantTextAtSubmit(current_assistant_text)
            /\ chatWorkers' = Append(chatWorkers,
                                     NewChatWorker(chat_api_key, Len(conversation')))
            /\ UNCHANGED chat_api_key
    /\ op' = "send_message"
    /\ UNCHANGED <<screen, loginVars, settings, openai_api_key, checkWorkers,
                   eventQueue, notice>>

\* send_btn.clicked: a click on the enabled Send button of the visible screen.
ClickSend ==
    /\ screen = "chat"
    /\ send_btn
    /\ send_message

\* input_field.returnPressed: Return in the enabled input field.
ReturnPressed ==
    /\ screen = "chat"
    /\ input_field
    /\ send_message

\* ---------------------------------------------------------- ChatWorker.run
RECURSIVE ChunksYielded(_)
ChunksYielded(workers) ==
    IF workers = <<>> THEN 0
    ELSE Len(Head(workers).chunks) + ChunksYielded(Tail(workers))

\* The signals of worker w posted to the interface thread, in order.
RECURSIVE Post(_, _, _)
Post(queue, w, events) ==
    IF events = <<>> THEN queue
    ELSE Post(Append(queue, Event(Head(events).sig, w, FALSE, Head(events).token)),
              w, Tail(events))

Signal(sig, token) == [sig |-> sig, token |-> token]

\* The loop body without the "if token" test.
ChunkSignalsUnfiltered(token) == <<Signal("tokenReceived", token)>>

\* run, lines 49-51: the signals emitted for one chunk.
ChunkSignals(token) == IF token # <<>> THEN <<Signal("tokenReceived", token)>> ELSE <<>>

\* finished.emit() moved after the try statement: it follows the error too.
TerminalSignalsBoth(raised) ==
    IF raised THEN <<Signal("errorOccurred", <<>>), Signal("finished", <<>>)>>
    ELSE <<Signal("finished", <<>>)>>

\* run, lines 52-54: the signals emitted when the loop ends normally (line 52)
\* or when the call or the iteration raised (line 54).
TerminalSignals(raised) ==
    IF raised THEN <<Signal("errorOccurred", <<>>)>> ELSE <<Signal("finished", <<>>)>>

\* run, line 39: the global is assigned.
ChatWorkerSetKey(i) ==
    /\ chatWorkers[i].pc = "created"
    /\ openai_api_key' = chatWorkers[i].api_key
    /\ chatWorkers' = [chatWorkers EXCEPT ![i].pc = "keyset"]
    /\ UNCHANGED <<screen, loginVars, settings, checkWorkers, chatVars, eventQueue,
                   notice, op>>

\* A request that carries the newest message alone.
RequestMessagesLastOnly(conv) == IF conv = <<>> THEN <<>> ELSE <<conv[Len(conv)]>>

\* __init__, line 35, and run, line 44: messages=self.messages, the list the
\* screen's conversation refers to, with its content at the time of the call.
RequestMessages(conv) == conv

\* run, lines 42-46: ChatCompletion.create sends the request, authenticated
\* with the global as it is now and carrying the list self.messages refers to
\* as it is now; it returns the response iterator or raises.
ChatWorkerCreate(i) ==
    /\ chatWorkers[i].pc = "keyset"
    /\ \E raised \in BOOLEAN :
        LET signals == IF raised THEN TerminalSignals(TRUE) ELSE <<>> IN
        /\ eventQueue' = Post(eventQueue, i, signals)
        /\ chatWorkers' = [chatWorkers EXCEPT
                              ![i].pc = IF raised THEN "done" ELSE "streaming",
                              ![i].outcome = IF raised THEN "raised" ELSE @,
                              ![i].usedKey = openai_api_key,
                              ![i].sent = RequestMessages(conversation),
                              ![i].emitted = @ \o signals]
    /\ UNCHANGED <<screen, loginVars, settings, openai_api_key, checkWorkers,
                   chatVars, notice, op>>

\* run, lines 47-51: the iterator yields one more chunk.
ChatWorkerChunk(i) ==
    /\ chatWorkers[i].pc = "streaming"
    /\ ChunksYielded(chatWorkers) < MaxChunks
    /\ \E token \in ChunkContents :
        LET signals == ChunkSignals(token) IN
        /\ eventQueue' = Post(eventQueue, i, signals)
        /\ chatWorkers' = [chatWorkers EXCEPT ![i].chunks = Append(@, token),
                                              ![i].emitted = @ \o signals]
    /\ UNCHANGED <<screen, loginVars, settings, openai_api_key, checkWorkers,
                   chatVars, notice, op>>

\* run, lines 47 and 52-54: the iterator is exhausted (raised = FALSE) or the
\* iteration raises mid-stream (raised = TRUE).
ChatWorkerEnd(i) ==
    /\ chatWorkers[i].pc = "streaming"
    /\ \E raised \in BOOLEAN :
        LET signals == TerminalSignals(raised) IN
        /\ eventQueue' = Post(eventQueue, i, signals)
        /\ chatWorkers' = [chatWorkers EXCEPT
                              ![i].pc = "done",
                              ![i].outcome = IF raised THEN "raised" ELSE "ok",
                              ![i].emitted = @ \o signals]
    /\ UNCHANGED <<screen, loginVars, settings, openai_api_key, checkWorkers,
                   chatVars, notice, op>>

\* ------------------------------------------------- slots of the chat screen
\* The token put in front of the text instead of behind it.
AccumulateInFront(text, token) == token \o text

\* update_assistant_message, line 200.
Accumulate(text, token) == text \o token

\* update_assistant_message, lines 202-204: insertPlainText at the end of the
\* document extends its last paragraph.
InsertAtEnd(history, token) ==
    IF history = <<>> THEN <<Paragraph("", token)>>
    ELSE [history EXCEPT ![Len(history)].text = @ \o token]

\* ChatScreen.update_assistant_message for the delivery at the head of the queue.
update_assistant_message ==
    /\ eventQueue # <<>>
    /\ Head(eventQueue).sig = "tokenReceived"
    /\ current_assistant_text' = Accumulate(current_assistant_text, Head(eventQueue).token)
    /\ chat_history' = InsertAtEnd(chat_history, Head(eventQueue).token)
    /\ eventQueue' = Tail(eventQueue)
    /\ op' = "update_assistant_message"
    /\ UNCHANGED <<screen, loginVars, settings, openai_api_key, checkWorkers,
                   chat_api_key, input_field_text, input_field, send_btn,
                   conversation, chatWorkers, notice>>

\* The commit with the role of line 171.
CommitAssistantAsUser(conv, text) == Append(conv, Message("user", text))

\* The reply written over the newest entry.
CommitAssistantInPlace(conv, text) ==
    [conv EXCEPT ![Len(conv)] = Message("assistant", text)]

\* on_chat_finished, line 213.
CommitAssistant(conv, text) == Append(conv, Message("assistant", text))

\* ChatScreen.on_chat_finished, then thread.quit, for the delivery at the head
\* of the queue.
on_chat_finished ==
    /\ eventQueue # <<>>
    /\ Head(eventQueue).sig = "finished"
    /\ send_btn' = TRUE
    /\ input_field' = TRUE
    /\ conversation' = CommitAssistant(conversation, current_assistant_text)
    /\ chat_history' = Append(chat_history, Paragraph("", <<>>))
    /\ chatWorkers' = [chatWorkers EXCEPT ![Head(eventQueue).w].thread = "quit"]
    /\ eventQueue' = Tail(eventQueue)
    /\ op' = "on_chat_finished"
    /\ UNCHANGED <<screen, loginVars, settings, openai_api_key, checkWorkers,
                   chat_api_key, input_field_text, current_assistant_text, notice>>

\* Controls left disabled after an error.
EnabledAfterErrorLeftOff == FALSE

\* on_chat_error, lines 219-220: the argument of the two setEnabled calls.
EnabledAfterError == TRUE

\* The partial text committed as on_chat_finished does.
ConversationAfterErrorCommitted(conv, text) == Append(conv, Message("assistant", text))

\* on_chat_error, lines 217-220: the conversation it leaves (no statement of
\* the handler touches it).
ConversationAfterError(conv, text) == conv

\* ChatScreen.on_chat_error for the delivery at the head of the queue.
\* errorOccurred is not connected to thread.quit: the thread keeps running.
on_chat_error ==
    /\ eventQueue # <<>>
    /\ Head(eventQueue).sig = "errorOccurred"
    /\ notice' = "warning: Error in chat"
    /\ send_btn' = EnabledAfterError
    /\ input_field' = EnabledAfterError
    /\ conversation' = ConversationAfterError(conversation, current_assistant_text)
    /\ eventQueue' = Tail(eventQueue)
    /\ op' = "on_chat_error"
    /\ UNCHANGED <<screen, loginVars, settings, openai_api_key, checkWorkers,
                   chat_api_key, input_field_text, current_assistant_text,
                   chat_history, chatWorkers>>

ChatNext ==
    \/ EditInput
    \/ ClickSend
    \/ ReturnPressed
    \/ \E i \in 1..Len(chatWorkers) : ChatWorkerSetKey(i)
    \/ \E i \in 1..Len(chatWorkers) : ChatWorkerCreate(i)
    \/ \E i \in 1..Len(chatWorkers) : ChatWorkerChunk(i)
    \/ \E i \in 1..Len(chatWorkers) : ChatWorkerEnd(i)
    \/ update_assistant_message
    \/ on_chat_finished
    \/ on_chat_error

Next == LoginNext \/ ChatNext

Spec == Init /\ [][Next]_vars

\* A step of a worker thread.
WorkerStep ==
    \/ \E i \in 1..Len(checkWorkers) : CheckWorkerSetKey(i) \/ CheckWorkerCall(i)
    \/ \E i \in 1..Len(chatWorkers) :
        \/ ChatWorkerSetKey(i)
        \/ ChatWorkerCreate(i)
        \/ ChatWorkerChunk(i)
        \/ ChatWorkerEnd(i)

\* The event loop of the interface thread serving the head of its queue.
Deliver ==
    \/ on_check_finished
    \/ update_assistant_message
    \/ on_chat_finished
    \/ on_chat_error

\* A started thread keeps running its worker, and the event loop keeps serving
\* queued deliveries (every message box is dismissed).
FairSpec == Spec /\ WF_vars(WorkerStep) /\ WF_vars(Deliver)

\* ------------------------------------------------------ vocabulary of claims
\* The step is the slot call for a delivery of signal sig: only slots take the
\* head off the queue.
Handles(sig) ==
    /\ eventQueue # <<>>
    /\ Head(eventQueue).sig = sig
    /\ eventQueue' = Tail(eventQueue)

\* The step is a call of send_message.  Worker steps and edits leave op as it
\* is; a call that follows another call of send_message is recognised when it
\* starts a worker (a call that changes nothing is a stuttering step).
SendStep ==
    /\ op' = "send_message"
    /\ op # "send_message" \/ Len(chatWorkers') > Len(chatWorkers)

IsBlank(text) == \A k \in 1..Len(text) : text[k] = " "

\* content is text without its leading and trailing blanks.
IsTrimOf(content, text) ==
    \E lead \in 0..Len(text) :
        /\ lead + Len(content) <= Len(text)
        /\ \A k \in 1..lead : text[k] = " "
        /\ \A k \in (lead + Len(content) + 1)..Len(text) : text[k] = " "
        /\ \A k \in 1..Len(content) : content[k] = text[lead + k]
        /\ content # <<>> => content[1] # " " /\ content[Len(content)] # " "

RECURSIVE Concat(_)
Concat(seqs) == IF seqs = <<>> THEN <<>> ELSE Head(seqs) \o Concat(Tail(seqs))

\* The non-empty fragments among the chunk contents, in order.
FragmentsOf(chunks) == SelectSeq(chunks, LAMBDA c : c # <<>>)

IsTerminal(sig) == sig \in {"finished", "errorOccurred"}

\* Worker i was started and its terminal event has not been processed.
InFlight(i) ==
    \/ chatWorkers[i].pc # "done"
    \/ \E k \in 1..Len(eventQueue) :
        eventQueue[k].w = i /\ IsTerminal(eventQueue[k].sig)

InFlightWorkers == {i \in 1..Len(chatWorkers) : InFlight(i)}

\* ------------------------------------------------------------------ claims
\* C1: when on_chat_finished runs for a worker, the entry it appends is the
\* assistant message whose content is the concatenation, in transport order,
\* of the non-empty fragments that worker's response yielded.
C1_CommitIsConcatenation ==
    [][Handles("finished") =>
        LET w == chatWorkers[Head(eventQueue).w] IN
        /\ Len(conversation') = Len(conversation) + 1
        /\ SubSeq(conversation', 1, Len(conversation)) = conversation
        /\ conversation'[Len(conversation')] =
               Message("assistant", Concat(FragmentsOf(w.chunks)))]_vars

\* A turn of two different fragments has been committed.
C1_Witness ==
    \E i \in 1..Len(chatWorkers) :
        /\ chatWorkers[i].thread = "quit"
        /\ FragmentsOf(chatWorkers[i].chunks) = <<<<"x">>, <<"y">>>>
        /\ Len(conversation) > chatWorkers[i].turn
        /\ conversation[chatWorkers[i].turn + 1] = Message("assistant", <<"x", "y">>)

\* C2: when on_chat_error runs for a worker, the conversation is left as it
\* was and ends with the user message of that worker's turn, the failure
\* notice is shown, and the send button and the input field are enabled.
C2_ErrorCommitsNothing ==
    [][Handles("errorOccurred") =>
        LET w == chatWorkers[Head(eventQueue).w] IN
        /\ conversation' = conversation
        /\ Len(conversation') = w.turn
        /\ conversation'[w.turn].role = "user"
        /\ notice' = "warning: Error in chat"
        /\ send_btn' /\ input_field']_vars

\* A turn failed after a fragment had been accumulated.
C2_Witness ==
    /\ op = "on_chat_error"
    /\ current_assistant_text # <<>>
    /\ conversation # <<>>
    /\ conversation[Len(conversation)].role = "user"
    /\ send_btn /\ input_field

\* C3: at most one worker is in flight, and while one is in flight neither
\* trigger of send_message (the Send button, Return in the input field) is
\* enabled, so no second worker can be started.
C3_OneStreamAtATime ==
    /\ Cardinality(InFlightWorkers) <= 1
    /\ InFlightWorkers # {} => ~send_btn /\ ~input_field

\* The second turn is in flight, the first one is over.
C3_Witness ==
    /\ Len(chatWorkers) = 2
    /\ InFlightWorkers = {2}
    /\ chatWorkers[2].pc = "streaming"

\* C4: a call of send_message with an input that is not blank appends one
\* entry, the user message with the trimmed input, and starts one worker that
\* has not issued its request yet; and whenever a worker issues its request,
\* the user message of its turn is in the conversation.
C4_UserAppendedBeforeRequest ==
    [][/\ (SendStep /\ ~IsBlank(input_field_text)) =>
            /\ Len(conversation') = Len(conversation) + 1
            /\ SubSeq(conversation', 1, Len(conversation)) = conversation
            /\ conversation'[Len(conversation')].role = "user"
            /\ IsTrimOf(conversation'[Len(conversation')].content, input_field_text)
            /\ Len(chatWorkers') = Len(chatWorkers) + 1
            /\ chatWorkers'[Len(chatWorkers')].pc = "created"
            /\ chatWorkers'[Len(chatWorkers')].turn = Len(conversation')
       /\ \A i \in 1..Len(chatWorkers) :
            (chatWorkers[i].pc = "keyset" /\ chatWorkers'[i].pc # "keyset") =>
                /\ Len(conversation) >= chatWorkers[i].turn
                /\ conversation[chatWorkers[i].turn].role = "user"
                /\ chatWorkers'[i].sent = conversation]_vars

\* A request has been issued for a turn whose input had blanks around it.
C4_Witness ==
    \E i \in 1..Len(chatWorkers) :
        /\ chatWorkers[i].pc = "streaming"
        /\ chatWorkers[i].sent # <<>>
        /\ chatWorkers[i].sent[chatWorkers[i].turn] = Message("user", <<"a", " ", "b">>)

\* C5: a call of send_message with an empty or blank input changes nothing:
\* not the conversation, the accumulator, the display, the input field and
\* the enabled state of the controls, and it starts no worker.
C5_BlankInputIsNoOp ==
    [][(SendStep /\ IsBlank(input_field_text)) =>
        UNCHANGED <<screen, loginVars, settings, openai_api_key, checkWorkers,
                    chatVars, chatWorkers, eventQueue, notice>>]_vars

\* send_message has run on a blank input and nothing was ever submitted.
C5_Witness ==
    /\ op = "send_message"
    /\ input_field_text = <<" ", " ">>
    /\ conversation = <<>> /\ chat_history = <<>> /\ chatWorkers = <<>>
    /\ send_btn /\ input_field

\* C6: no tokenReceived carries an empty fragment: none is queued, and each
\* worker has emitted exactly one tokenReceived per non-empty chunk content,
\* in order.
C6_NoEmptyFragmentForwarded ==
    /\ \A k \in 1..Len(eventQueue) :
        eventQueue[k].sig = "tokenReceived" => eventQueue[k].token # <<>>
    /\ \A i \in 1..Len(chatWorkers) :
        LET tokens == SelectSeq(chatWorkers[i].emitted,
                                LAMBDA e : e.sig = "tokenReceived") IN
        /\ Len(tokens) = Len(FragmentsOf(chatWorkers[i].chunks))
        /\ \A k \in 1..Len(tokens) :
            tokens[k].token = FragmentsOf(chatWorkers[i].chunks)[k]

\* A response held a chunk without text and a chunk with text.
C6_Witness ==
    \E i \in 1..Len(chatWorkers) :
        /\ chatWorkers[i].chunks = <<<<>>, <<"x">>>>
        /\ chatWorkers[i].pc = "done"
        /\ Len(chatWorkers[i].emitted) = 2
        /\ current_assistant_text = <<"x">>

\* C7 as stated: processing a successful validation result leaves the key of
\* that validation in the settings store, and processing a failed one leaves
\* the store as it was.
C7_PersistedOnSuccess ==
    [][Handles("checkFinished") =>
        IF Head(eventQueue).success
        THEN settings' = checkWorkers[Head(eventQueue).w].api_key
        ELSE settings' = settings]_vars

\* C7 as amended: processing a validation result, successful or failed, never
\* writes the settings store; the store changes only in a save_api_key call,
\* made while valid_api_key holds, which writes LoginScreen.api_key and shows
\* the chat screen; while valid_api_key is false nothing is written.
C7_PersistedOnSaveOnly ==
    [][/\ Handles("checkFinished") => settings' = settings
       /\ settings' # settings => op' = "save_api_key"
       /\ screen' # screen =>
            /\ op' = "save_api_key"
            /\ valid_api_key
            /\ settings' = login_api_key
       /\ ~valid_api_key => settings' = settings]_vars

\* A key validated in this run has been saved.
C7_Witness ==
    /\ op = "save_api_key"
    /\ screen = "chat"
    /\ settings = <<"j">>
    /\ \E c \in 1..Len(checkWorkers) :
        checkWorkers[c].api_key = <<"j">> /\ checkWorkers[c].outcome = "ok"

\* C8 as stated: no two consecutive entries of the conversation have the same
\* role.
C8_Alternates ==
    \A k \in 1..(Len(conversation) - 1) :
        conversation[k].role # conversation[k + 1].role

\* C8 as amended: the conversation starts with a user entry, every assistant
\* entry directly follows a user entry, and a user entry directly follows a
\* user entry exactly when the turn of the earlier one ended in error; the
\* entry after the user message of a completed turn is its assistant message.
C8_AlternatesUpToErrors ==
    /\ conversation # <<>> => conversation[1].role = "user"
    /\ \A k \in 2..Len(conversation) :
        conversation[k].role = "assistant" => conversation[k - 1].role = "user"
    /\ \A i \in 1..Len(chatWorkers) :
        LET turn == chatWorkers[i].turn IN
        /\ turn <= Len(conversation) /\ conversation[turn].role = "user"
        /\ turn < Len(conversation) =>
            /\ ~InFlight(i)
            /\ chatWorkers[i].outcome = "raised" => conversation[turn + 1].role = "user"
            /\ chatWorkers[i].outcome = "ok" => conversation[turn + 1].role = "assistant"
    /\ \A k \in 1..Len(conversation) :
        conversation[k].role = "user" =>
            \E i \in 1..Len(chatWorkers) : chatWorkers[i].turn = k

\* A turn that ended in error after a fragment, then the next submit.
C8_Witness ==
    /\ Len(conversation) = 2
    /\ conversation[1].role = "user"
    /\ conversation[2].role = "user"
    /\ Len(chatWorkers) = 2
    /\ chatWorkers[1].outcome = "raised"
    /\ chatWorkers[1].chunks # <<>>
    /\ chatWorkers[2].pc = "created"

\* C9: a worker whose run has returned has emitted exactly one terminal
\* signal, as its last signal: finished when the transport ended normally,
\* errorOccurred when the call or the iteration raised; a worker whose run has
\* not returned has emitted no terminal signal.
C9_OneTerminalSignal ==
    \A i \in 1..Len(chatWorkers) :
        LET e == chatWorkers[i].emitted IN
        /\ chatWorkers[i].pc # "done" =>
            \A k \in 1..Len(e) : ~IsTerminal(e[k].sig)
        /\ chatWorkers[i].pc = "done" =>
            /\ e # <<>>
            /\ \A k \in 1..(Len(e) - 1) : ~IsTerminal(e[k].sig)
            /\ chatWorkers[i].outcome = "ok" => e[Len(e)].sig = "finished"
            /\ chatWorkers[i].outcome = "raised" => e[Len(e)].sig = "errorOccurred"
            /\ chatWorkers[i].outcome # "pending"

\* A stream ended without any fragment, and a stream failed after a fragment.
C9_Witness ==
    /\ Len(chatWorkers) = 2
    /\ chatWorkers[1].pc = "done" /\ chatWorkers[2].pc = "done"
    /\ chatWorkers[1].emitted = <<Signal("finished", <<>>)>>
    /\ Len(chatWorkers[2].emitted) = 2
    /\ chatWorkers[2].emitted[2].sig = "errorOccurred"

\* C10: once a failed validation result is queued the Check button is
\* eventually enabled, and once the error of a chat turn is queued the Send
\* button and the input field are eventually enabled.
C10_ControlsRestored ==
    /\ (\E k \in 1..Len(eventQueue) :
            eventQueue[k].sig = "checkFinished" /\ ~eventQueue[k].success)
        ~> check_btn
    /\ (\E k \in 1..Len(eventQueue) : eventQueue[k].sig = "errorOccurred")
        ~> (send_btn /\ input_field)

\* A validation has failed and a chat turn has failed, and all controls are
\* enabled again.
C10_Witness ==
    /\ \E c \in 1..Len(checkWorkers) :
        checkWorkers[c].outcome = "raised" /\ checkWorkers[c].thread = "quit"
    /\ \E i \in 1..Len(chatWorkers) :
        chatWorkers[i].outcome = "raised" /\ ~InFlight(i)
    /\ InFlightWorkers = {}
    /\ eventQueue = <<>>
    /\ check_btn /\ send_btn /\ input_field

\* C11: at no time is the remote call of an ApiKeyCheckWorker and the remote
\* call of a ChatWorker outstanding together (each worker created and its run
\* not yet returned).
C11_NeverBothInFlight ==
    ~ /\ \E c \in 1..Len(checkWorkers) : checkWorkers[c].pc # "done"
      /\ \E i \in 1..Len(chatWorkers) : chatWorkers[i].pc # "done"

\* C12: a call of send_message that starts a worker gives it the key the
\* settings store holds under api_key at that moment.
C12_WorkerGetsStoredKey ==
    [][(SendStep /\ Len(chatWorkers') > Len(chatWorkers)) =>
        chatWorkers'[Len(chatWorkers')].api_key = settings]_vars

\* C13: a worker whose terminal signal has been processed, on the success path
\* or on the error path, has had its thread quit; so when send_message or
\* check_api_key starts the next worker, no thread of an earlier, finished
\* call is still running.
C13_ThreadQuitAfterTerminal ==
    /\ \A c \in 1..Len(checkWorkers) :
        (checkWorkers[c].pc = "done" /\
         ~\E k \in 1..Len(eventQueue) :
              eventQueue[k].sig = "checkFinished" /\ eventQueue[k].w = c)
            => checkWorkers[c].thread = "quit"
    /\ \A i \in 1..Len(chatWorkers) :
        ~InFlight(i) => chatWorkers[i].thread = "quit"

\* C14: the remote call of every worker is authenticated with the key that
\* was given to that worker's constructor.
C14_CallUsesOwnKey ==
    /\ \A c \in 1..Len(checkWorkers) :
        checkWorkers[c].pc = "done" =>
            checkWorkers[c].usedKey = checkWorkers[c].api_key
    /\ \A i \in 1..Len(chatWorkers) :
        chatWorkers[i].pc \in {"streaming", "done"} =>
            chatWorkers[i].usedKey = chatWorkers[i].api_key

\* C15: every value save_api_key writes to the settings store is a non-empty
\* key for which a validation has completed successfully (the worker created
\* for that key reported success and its result has been processed).
C15_SavedKeyWasValidated ==
    [][(op' = "save_api_key" /\ screen' # screen) =>
        /\ settings' # <<>>
        /\ \E c \in 1..Len(checkWorkers) :
            /\ checkWorkers[c].api_key = settings'
            /\ checkWorkers[c].outcome = "ok"
            /\ checkWorkers[c].thread = "quit"]_vars

\* The turns whose finished signal has been processed.
CompletedTurns ==
    {i \in 1..Len(chatWorkers) : chatWorkers[i].outcome = "ok" /\ ~InFlight(i)}

\* C16: every step leaves the entries of the conversation as a prefix of the
\* new conversation, and the length of the conversation is the number of
\* accepted submits plus the number of turns that ended in a completion.
C16_HistoryAppendOnly ==
    [][/\ Len(conversation') >= Len(conversation)
       /\ SubSeq(conversation', 1, Len(conversation)) = conversation
       /\ Len(conversation') = Len(chatWorkers') + Cardinality(CompletedTurns')]_vars

\* A completed turn and an errored turn: three entries from two submits.
C16_Witness ==
    /\ Len(chatWorkers) = 2
    /\ InFlightWorkers = {}
    /\ chatWorkers[1].outcome = "ok"
    /\ chatWorkers[2].outcome = "raised"
    /\ Len(conversation) = 3
    /\ conversation[2].role = "assistant"

\* The fragments of worker i that are posted and not yet delivered, in order.
RECURSIVE PendingText(_, _)
PendingText(queue, i) ==
    IF queue = <<>> THEN <<>>
    ELSE (IF Head(queue).sig = "tokenReceived" /\ Head(queue).w = i
          THEN Head(queue).token ELSE <<>>) \o PendingText(Tail(queue), i)

\* C17: an accepted submit starts its turn with an empty accumulator; while a
\* turn is in flight the accumulator together with the fragments still to be
\* delivered is exactly what that turn's response has yielded, and the
\* assistant message committed for a turn holds that turn's fragments only.
C17_FreshAccumulatorPerTurn ==
    [][/\ (SendStep /\ Len(chatWorkers') > Len(chatWorkers))
            => current_assistant_text' = <<>>
       /\ \A i \in 1..Len(chatWorkers') :
            LET w == chatWorkers'[i] IN
            /\ InFlight(i)' =>
                 current_assistant_text' \o PendingText(eventQueue', i) =
                     Concat(FragmentsOf(w.chunks))
            /\ i \in CompletedTurns' =>
                 conversation'[w.turn + 1] =
                     Message("assistant", Concat(FragmentsOf(w.chunks)))]_vars

\* A turn failed after fragment x had been accumulated, and the next turn
\* committed fragment y alone.
C17_Witness ==
    /\ Len(chatWorkers) = 2
    /\ chatWorkers[1].outcome = "raised"
    /\ FragmentsOf(chatWorkers[1].chunks) = <<<<"x">>>>
    /\ 2 \in CompletedTurns
    /\ conversation[3] = Message("assistant", <<"y">>)

\* C18: between an accepted submit and the moment its request is issued the
\* conversation does not change, and the request carries the conversation as
\* it stood after the submit: as many entries as the turn's submit left, the
\* last one a user message, all of them the entries the conversation holds
\* in those places.
C18_RequestCarriesHistory ==
    [][/\ (\E i \in 1..Len(chatWorkers) : chatWorkers[i].pc \in {"created", "keyset"})
            => conversation' = conversation
       /\ \A i \in 1..Len(chatWorkers') :
            LET w == chatWorkers'[i] IN
            w.pc \in {"streaming", "done"} =>
                /\ Len(w.sent) = w.turn
                /\ w.sent[w.turn].role = "user"
                /\ w.sent = SubSeq(conversation', 1, w.turn)]_vars

\* The request of a second turn carried the first turn's two entries and the
\* new user message.
C18_Witness ==
    /\ Len(chatWorkers) = 2
    /\ chatWorkers[2].pc = "streaming"
    /\ Len(chatWorkers[2].sent) = 3
    /\ chatWorkers[2].sent[2] = Message("assistant", <<"x">>)
    /\ chatWorkers[2].sent[3] = Message("user", <<"a", " ", "b">>)
====
